---- MODULE Spec2Model ----
(***************************************************************************)
(* Model of repmark's text-layout engine (orepmark_20251022112015.py):     *)
(* draw_block_inline, draw_block_stacked_on_space and                      *)
(* export_and_draw_bounding_boxes, run in the order main() calls them.     *)
(*                                                                         *)
(* Strings are sequences of one-character strings.  Bounding boxes are     *)
(* 4-tuples <<x0, y0, x1, y1>>.  inline_gap_factor is kept in tenths       *)
(* (3 stands for 0.3); on every width the model produces, Python's float   *)
(* product truncates to the same integer as the exact product.             *)
(***************************************************************************)
EXTENDS Integers, Sequences, FiniteSets, TLC

VARIABLES cfg, pc, lines, x, y, results, trace, side_results, out, sp

vars == <<cfg, pc, lines, x, y, results, trace, side_results, out, sp>>

(* ---------------------------------------------------------------- bounds *)
MaxLen == 3
MaxEntries == 2
MaxChars == 4
MaxFontSize == 40
MaxSplitLen == 3

(* ------------------------------------------------------------- arithmetic *)
Max(a, b) == IF a >= b THEN a ELSE b

\* int(num/den) of Python: truncation toward zero (den > 0)
Trunc(num, den) == IF num >= 0 THEN num \div den ELSE -((-num) \div den)

\* round(num/den) of Python: to nearest, ties to even (den > 0)
RoundNearest(num, den) ==
    LET f == num \div den
        r == num - f * den
    IN  IF 2 * r < den THEN f
        ELSE IF 2 * r > den THEN f + 1
        ELSE IF f % 2 = 0 THEN f ELSE f + 1

(* ------------------------------------------------------------------ texts *)
Chars == {"A", " "}

SplitChars == {"A", "B", " ", "\t", "\n"}

SeqsUpTo(S, n) == UNION {[1..k -> S] : k \in 0..n}

Texts == SeqsUpTo(Chars, MaxLen)

SplitTexts == SeqsUpTo(SplitChars, MaxSplitLen)

EmptyText == << >>

DigitChar(d) == CASE d = 0 -> "0" [] d = 1 -> "1" [] d = 2 -> "2" [] d = 3 -> "3"
                  [] d = 4 -> "4" [] d = 5 -> "5" [] d = 6 -> "6" [] d = 7 -> "7"
                  [] d = 8 -> "8" [] OTHER -> "9"

RECURSIVE JoinList(_)
\* ", ".join(str(n) for n in nums), each n a single digit
JoinList(nums) ==
    IF nums = << >> THEN << >>
    ELSE IF Len(nums) = 1 THEN <<DigitChar(nums[1])>>
    ELSE <<DigitChar(nums[1]), ",", " ">> \o JoinList(Tail(nums))

(* ---------------------------------------------------------------- entries *)
\* An entry of end_lines as yaml.safe_load delivers it:
\*   kind "str"   a plain string (value)
\*   kind "dict"  a mapping; vtype tells what its 'value' key holds
\*                ("str", "missing", "none", "int"); stacked is what
\*                entry.get("stacked", None) returns
\*   kind "other" neither: an integer (vtype "int", num = <<n>>) or a list of
\*                integers (vtype "list", num)
StackedVals == {"None", "True", "False"}

StrEntries == {[kind |-> "str", vtype |-> "str", value |-> t, num |-> << >>, stacked |-> "None"] :
                 t \in Texts}

DictEntries == {[kind |-> "dict", vtype |-> "str", value |-> t, num |-> << >>, stacked |-> s] :
                  t \in Texts, s \in StackedVals}

OddDictEntries == {[kind |-> "dict", vtype |-> v, value |-> EmptyText, num |-> <<7>>, stacked |-> "True"] :
                     v \in {"missing", "none", "int"}}

OtherEntries == {[kind |-> "other", vtype |-> "int", value |-> EmptyText, num |-> <<5>>, stacked |-> "None"],
                 [kind |-> "other", vtype |-> "list", value |-> EmptyText, num |-> <<1, 2>>, stacked |-> "None"]}

Entries == StrEntries \cup DictEntries \cup OddDictEntries \cup OtherEntries

\* the size of an entry as input: the characters of its text, 1 for an entry
\* that carries no text
Weight(entry) == IF entry.vtype = "str" THEN Len(entry.value) ELSE 1

RECURSIVE TotalWeight(_)
TotalWeight(es) == IF es = << >> THEN 0 ELSE Weight(Head(es)) + TotalWeight(Tail(es))

\* the input list may still hold this entry: at most MaxEntries entries of
\* at most MaxChars characters in all
Fits(es, entry) == Len(es) < MaxEntries /\ TotalWeight(es) + Weight(entry) <= MaxChars

\* str(entry) for an entry that is not a dict
Str(entry) ==
    IF entry.kind = "str" THEN entry.value
    ELSE IF entry.vtype = "int" THEN <<DigitChar(entry.num[1])>>
    ELSE <<"[">> \o JoinList(entry.num) \o <<"]">>

\* line 139: entry.get("value", "") is a string only for vtype "str"/"missing"
ValueIsString(entry) == entry.kind # "dict" \/ entry.vtype \in {"str", "missing"}

\* lines 138-143: the text of the entry
LineOf(entry) ==
    IF entry.kind = "dict"
    THEN (IF entry.vtype = "str" THEN entry.value ELSE EmptyText)
    ELSE Str(entry)

\* lines 138-143: the stacked flag of the entry
StackedFlagOf(entry) == IF entry.kind = "dict" THEN entry.stacked ELSE "None"

\* a loader that rejects everything that is neither a string nor a mapping
Raises_RejectMalformed(entry) == entry.kind = "other" \/ ~ValueIsString(entry)

\* line 145: `" " in line` raises TypeError when line is None or a number
Raises(entry) == ~ValueIsString(entry)

(* ------------------------------------------------------------------ split *)
SplitChar == " "

\* line.split(None, 1): any whitespace separates
FirstSep_Whitespace(line) ==
    LET hits == {i \in 1..Len(line) : line[i] \in {" ", "\t", "\n"}}
    IN  IF hits = {} THEN 0 ELSE CHOOSE i \in hits : \A j \in hits : i <= j

\* lines 145-146: the index of the first " ", 0 when there is none
FirstSep(line) ==
    LET hits == {i \in 1..Len(line) : line[i] = SplitChar}
    IN  IF hits = {} THEN 0 ELSE CHOOSE i \in hits : \A j \in hits : i <= j

\* lines 145-148: (top, bottom)
Split(line) ==
    LET i == FirstSep(line)
    IN  IF i = 0 THEN <<line, EmptyText>>
        ELSE <<SubSeq(line, 1, i - 1), SubSeq(line, i + 1, Len(line))>>

\* line 150
HasSpace(line) == Split(line)[2] # EmptyText

\* bool(stacked_flag) for a flag that is not None
Bool(flag) == flag = "True"

\* the page-wide default applied on top of the entry's own flag
DoStack_ForceAlways(flag, force, has_space) ==
    (force \/ (flag # "None" /\ Bool(flag))) /\ has_space

\* lines 151-154
DoStack(flag, force, has_space) ==
    IF flag = "None" THEN force /\ has_space
    ELSE Bool(flag) /\ has_space

(* ------------------------------------------------------- text measurement *)
\* font = [size, adv]: nominal size and the advance of one glyph
TextLength(s, font) == Len(s) * font.adv

\* the box of s drawn with its origin at xy; the empty string has an empty box
TextBBox(xy, s, font) ==
    IF s = EmptyText THEN <<xy[1], xy[2], xy[1], xy[2]>>
    ELSE <<xy[1], xy[2], xy[1] + TextLength(s, font), xy[2] + font.size>>

(* --------------------------------------------------------- layout numbers *)
\* the inner gap left out of the second line's origin
StackedBottomY_NoGap(cy, size, inner_stack_gap) == cy + size

\* line 160
StackedBottomY(cy, size, inner_stack_gap) == cy + size + inner_stack_gap

\* a stacked block advanced as if it were one line high
StackedAdvance_OneLine(size, inner_stack_gap, block_spacing) ==
    size + inner_stack_gap + block_spacing

\* line 163
StackedAdvance(size, inner_stack_gap, block_spacing) ==
    (size * 2) + inner_stack_gap + block_spacing

\* a branch that forgets to move the cursor
LineAdvance_None(size, block_spacing) == 0

\* lines 174, 182
LineAdvance(size, block_spacing) == size + block_spacing

\* round() in place of int()
AdaptiveGap_Rounded(prefix_width, factor10) == RoundNearest(prefix_width * factor10, 10)

\* line 167: int(prefix_width * inline_gap_factor), the factor in tenths
AdaptiveGap(prefix_width, factor10) == Trunc(prefix_width * factor10, 10)

\* line 169
InlineBottomX(cx, prefix_width, adaptive_gap) == cx + prefix_width + adaptive_gap

\* line 173
CombinedBBox(bbox_top, bbox_bottom) ==
    <<bbox_top[1], bbox_top[2], bbox_bottom[3], bbox_bottom[4]>>

\* an empty second box at the cursor in place of the line's own box
UnsplitBottom_Empty(bbox_top) == <<bbox_top[1], bbox_top[2], bbox_top[1], bbox_top[2]>>

\* line 181
UnsplitBottom(bbox_top) == bbox_top

\* round() in place of int()
AutoPadding_Rounded(font_size) == Max(2, RoundNearest(font_size, 10))

\* lines 233-234: max(2, int(font_size * 0.1))
AutoPadding(font_size) == Max(2, Trunc(font_size, 10))

\* lines 240-242
PadBBox(b, pad) == <<b[1] - pad, b[2] - pad, b[3] + pad, b[4] + pad>>

(* ----------------------------------------------------------- configuration *)
\* DEFAULT_CONFIG's side block (lines 46-50) with one of DEFAULT_SIDE_LINES
SideLines == << <<"9", "9", "9", " ", "2", "8", "6">>, <<"9", "9", "8", " ", "3", "7", "5">> >>

\* end-block settings: font size, glyph advance, block spacing, inner gap and
\* inline gap factor (tenths).  Scenario is the sheet of the documented
\* examples (line height 30, spacing 20, inner gap 0, factor 0.3, a glyph 40
\* wide); the tight sheets have negative gaps that cancel the line height.
Scenario == [end_font |-> 30, adv |-> 40, end_spacing |-> 20, end_inner_gap |-> 0, inline_gap_factor |-> 3]

Tight == [end_font |-> 10, adv |-> 6, end_spacing |-> -10, end_inner_gap |-> -10, inline_gap_factor |-> 3]

TightNeg == [end_font |-> 10, adv |-> 6, end_spacing |-> -10, end_inner_gap |-> -10, inline_gap_factor |-> -3]

BBoxPaddings == {<< >>, <<0>>, <<5>>}

\* cfg as main() reads it (lines 288-312); end_inline gives
\* force_stack_default = not end_inline (line 333); bbox_padding is << >>
\* when the key is absent (line 347)
Config(g, force, draw, pad, side_font) ==
    [side_font |-> side_font, side_x |-> 5, side_y |-> 5, side_spacing |-> 10,
     end_x |-> 500, end_y |-> 5,
     end_font |-> g.end_font, adv |-> g.adv,
     end_spacing |-> g.end_spacing, end_inner_gap |-> g.end_inner_gap,
     force_stack_default |-> force, inline_gap_factor |-> g.inline_gap_factor,
     draw_bboxes |-> draw, bbox_padding |-> pad]

Configs == {Config(Scenario, TRUE, TRUE, << >>, 64),
            Config(Tight, TRUE, TRUE, << >>, 64),
            Config(TightNeg, FALSE, TRUE, << >>, 64)}

\* every font size pair, with and without outlines and a fixed padding
PaddingConfigs ==
    {[Config(Scenario, TRUE, d, p, sf) EXCEPT !.end_font = ef] :
        sf \in 1..MaxFontSize, ef \in 1..MaxFontSize, d \in BOOLEAN, p \in BBoxPaddings}

EndFont(c) == [size |-> c.end_font, adv |-> c.adv]

SideFont(c) == [size |-> c.side_font, adv |-> c.side_font \div 2]

NoOut == [txt |-> << >>, json |-> << >>, rects |-> << >>, paddings |-> << >>]

NoSplit == [text |-> EmptyText, top |-> EmptyText, bottom |-> EmptyText, has_space |-> FALSE, done |-> FALSE]

(* ------------------------------------------------------------------- Init *)
Init ==
    /\ cfg \in Configs
    /\ pc = "side"
    /\ lines = << >>
    /\ x = 0
    /\ y = 0
    /\ results = << >>
    /\ trace = << >>
    /\ side_results = << >>
    /\ out = NoOut
    /\ sp = NoSplit

(* ------------------------------------------------------ draw_block_inline *)
\* lines 105-113
DrawBlockInline(ls, font, start_xy, line_spacing) ==
    [i \in 1..Len(ls) |->
        LET at == <<start_xy[1], start_xy[2] + (i - 1) * (font.size + line_spacing)>>
        IN  [line |-> ls[i], bbox |-> TextBBox(at, ls[i], font)]]

\* main(), line 322, then lines 325-335 enter draw_block_stacked_on_space
DrawSides ==
    /\ pc = "side"
    /\ side_results' = DrawBlockInline(SideLines, SideFont(cfg),
                                       <<cfg.side_x, cfg.side_y>>, cfg.side_spacing)
    /\ x' = cfg.end_x
    /\ y' = cfg.end_y
    /\ pc' = "end"
    /\ UNCHANGED <<cfg, lines, results, trace, out, sp>>

(* -------------------------------------------- draw_block_stacked_on_space *)
Result(line, bbox_top, bbox_bottom) ==
    [line |-> line, bbox_top |-> bbox_top, bbox_bottom |-> bbox_bottom]

Call(at, text) == [at |-> at, text |-> text]

\* one pass of the loop body, lines 137-184, for an entry taking the
\* stacked branch (lines 156-163, 184)
StepStacked(entry) ==
    /\ pc = "end"
    /\ Fits(lines, entry)
    /\ ~Raises(entry)
    /\ LET line == LineOf(entry)
           top == Split(line)[1]
           bottom == Split(line)[2]
           has_space == HasSpace(line)
           font == EndFont(cfg)
           y2 == StackedBottomY(y, font.size, cfg.end_inner_gap)
       IN  /\ DoStack(StackedFlagOf(entry), cfg.force_stack_default, has_space)
           /\ results' = Append(results,
                  Result(line, TextBBox(<<x, y>>, top, font), TextBBox(<<x, y2>>, bottom, font)))
           /\ trace' = Append(trace,
                  [branch |-> "stacked", at |-> <<x, y>>,
                   drawn |-> <<Call(<<x, y>>, top), Call(<<x, y2>>, bottom)>>])
           /\ y' = y + StackedAdvance(font.size, cfg.end_inner_gap, cfg.end_spacing)
    /\ lines' = Append(lines, entry)
    /\ UNCHANGED <<cfg, pc, x, side_results, out, sp>>

\* the inline branch (lines 164-176)
StepInline(entry) ==
    /\ pc = "end"
    /\ Fits(lines, entry)
    /\ ~Raises(entry)
    /\ LET line == LineOf(entry)
           top == Split(line)[1]
           bottom == Split(line)[2]
           has_space == HasSpace(line)
           font == EndFont(cfg)
           prefix_width == TextLength(top, font)
           adaptive_gap == AdaptiveGap(prefix_width, cfg.inline_gap_factor)
           x2 == InlineBottomX(x, prefix_width, adaptive_gap)
           bbox_top == TextBBox(<<x, y>>, top, font)
           bbox_bottom == TextBBox(<<x2, y>>, bottom, font)
       IN  /\ ~DoStack(StackedFlagOf(entry), cfg.force_stack_default, has_space)
           /\ has_space
           /\ results' = Append(results,
                  Result(line, bbox_top, CombinedBBox(bbox_top, bbox_bottom)))
           /\ trace' = Append(trace,
                  [branch |-> "inline", at |-> <<x, y>>,
                   drawn |-> <<Call(<<x, y>>, top), Call(<<x2, y>>, bottom)>>])
           /\ y' = y + LineAdvance(font.size, cfg.end_spacing)
    /\ lines' = Append(lines, entry)
    /\ UNCHANGED <<cfg, pc, x, side_results, out, sp>>

\* the single unstacked line (lines 177-184)
StepUnsplit(entry) ==
    /\ pc = "end"
    /\ Fits(lines, entry)
    /\ ~Raises(entry)
    /\ LET line == LineOf(entry)
           has_space == HasSpace(line)
           font == EndFont(cfg)
           bbox_top == TextBBox(<<x, y>>, line, font)
       IN  /\ ~DoStack(StackedFlagOf(entry), cfg.force_stack_default, has_space)
           /\ ~has_space
           /\ results' = Append(results, Result(line, bbox_top, UnsplitBottom(bbox_top)))
           /\ trace' = Append(trace,
                  [branch |-> "unsplit", at |-> <<x, y>>,
                   drawn |-> <<Call(<<x, y>>, line)>>])
           /\ y' = y + LineAdvance(font.size, cfg.end_spacing)
    /\ lines' = Append(lines, entry)
    /\ UNCHANGED <<cfg, pc, x, side_results, out, sp>>

\* line 145 raises TypeError: the entry was read, nothing was appended
StepRaise(entry) ==
    /\ pc = "end"
    /\ Fits(lines, entry)
    /\ Raises(entry)
    /\ lines' = Append(lines, entry)
    /\ pc' = "raised"
    /\ UNCHANGED <<cfg, x, y, results, trace, side_results, out, sp>>

\* line 185: the input is exhausted
Return ==
    /\ pc = "end"
    /\ pc' = "export"
    /\ UNCHANGED <<cfg, lines, x, y, results, trace, side_results, out, sp>>

(* ----------------------------------------- export_and_draw_bounding_boxes *)
\* lines 210-214: one text line per end result
TxtLine(r) ==
    IF r.bbox_top = r.bbox_bottom
    THEN [line |-> r.line, form |-> "bbox", boxes |-> <<r.bbox_top>>]
    ELSE [line |-> r.line, form |-> "top_bottom", boxes |-> <<r.bbox_top, r.bbox_bottom>>]

\* lines 249-252: the outlines of one end result
EndRects(r, pad) ==
    IF r.bbox_bottom # r.bbox_top
    THEN <<PadBBox(r.bbox_top, pad), PadBBox(r.bbox_bottom, pad)>>
    ELSE <<PadBBox(r.bbox_top, pad)>>

RECURSIVE Flatten(_)
Flatten(ss) == IF ss = << >> THEN << >> ELSE Head(ss) \o Flatten(Tail(ss))

\* lines 232-237: (side_padding, end_padding); bbox_padding is << >> for None
Paddings(bbox_padding, side_font_size, end_font_size) ==
    IF bbox_padding = << >>
    THEN <<AutoPadding(side_font_size), AutoPadding(end_font_size)>>
    ELSE <<bbox_padding[1], bbox_padding[1]>>

\* lines 189-256
Export ==
    /\ pc = "export"
    /\ LET pads == Paddings(cfg.bbox_padding, cfg.side_font, cfg.end_font)
           draw_boxes == cfg.draw_bboxes
       IN  out' = [txt |-> [i \in 1..Len(results) |-> TxtLine(results[i])],
                   json |-> results,
                   rects |-> IF draw_boxes
                             THEN [i \in 1..Len(side_results) |-> PadBBox(side_results[i].bbox, pads[1])]
                                  \o Flatten([i \in 1..Len(results) |-> EndRects(results[i], pads[2])])
                             ELSE << >>,
                   paddings |-> IF draw_boxes THEN pads ELSE << >>]
    /\ pc' = "done"
    /\ UNCHANGED <<cfg, lines, x, y, results, trace, side_results, sp>>

Next ==
    \/ DrawSides
    \/ \E entry \in Entries : StepStacked(entry)
    \/ \E entry \in Entries : StepInline(entry)
    \/ \E entry \in Entries : StepUnsplit(entry)
    \/ \E entry \in Entries : StepRaise(entry)
    \/ Return
    \/ Export

Spec == Init /\ [][Next]_vars

(* ------------------------------------------- the exporter on its own inputs *)
\* export_and_draw_bounding_boxes called with every pair of font sizes, after
\* a run whose end_lines list is empty
InitPadding ==
    /\ cfg \in PaddingConfigs
    /\ pc = "export"
    /\ lines = << >>
    /\ x = cfg.end_x
    /\ y = cfg.end_y
    /\ results = << >>
    /\ trace = << >>
    /\ side_results = DrawBlockInline(SideLines, SideFont(cfg),
                                      <<cfg.side_x, cfg.side_y>>, cfg.side_spacing)
    /\ out = NoOut
    /\ sp = NoSplit

NextPadding == Export

SpecPadding == InitPadding /\ [][NextPadding]_vars

(* ------------------------------------------------- the split on its own *)
\* lines 145-150 applied to one text
SplitLine ==
    /\ pc = "split"
    /\ ~sp.done
    /\ sp' = [text |-> sp.text, top |-> Split(sp.text)[1], bottom |-> Split(sp.text)[2],
              has_space |-> HasSpace(sp.text), done |-> TRUE]
    /\ UNCHANGED <<cfg, pc, lines, x, y, results, trace, side_results, out>>

InitSplit ==
    /\ cfg = Config(Scenario, TRUE, FALSE, << >>, 64)
    /\ pc = "split"
    /\ lines = << >>
    /\ x = 0
    /\ y = 0
    /\ results = << >>
    /\ trace = << >>
    /\ side_results = << >>
    /\ out = NoOut
    /\ sp \in {[NoSplit EXCEPT !.text = t] : t \in SplitTexts}

NextSplit == SplitLine

SpecSplit == InitSplit /\ [][NextSplit]_vars

(* ================================================================ claims *)
\* where the entry after entry i is placed: the origin of entry i+1, or the
\* cursor the loop holds after its last pass
NextAt(i) == IF i < Len(trace) THEN trace[i + 1].at ELSE <<x, y>>

Size == cfg.end_font

\* the text has a space with something after it
SpaceFollowed(line) == \E k \in 1..Len(line) : line[k] = " " /\ (\A j \in 1..(k - 1) : line[j] # " ") /\ k < Len(line)

ExplicitStacked(e) == e.kind = "dict" /\ e.stacked # "None"

\* C1: an entry with an explicit stacked field is stacked exactly when the
\* field is true and the text has a second part, whatever force_stack_default
\* is; an entry without the field is stacked exactly when force_stack_default
\* is set and the text has a second part; no entry without a second part is
\* stacked.
C1_PlacementDecision ==
    \A i \in 1..Len(results) :
        LET e == lines[i]
            has_space == SpaceFollowed(results[i].line)
            stacked == trace[i].branch = "stacked"
        IN  /\ ExplicitStacked(e) => (stacked <=> (e.stacked = "True" /\ has_space))
            /\ ~ExplicitStacked(e) => (stacked <=> (cfg.force_stack_default /\ has_space))
            /\ ~has_space => ~stacked

\* an entry with stacked: false and a second part laid out inline on a sheet
\* that stacks by default, followed by an entry without the field and
\* without a second part
C1_Witness ==
    /\ cfg.force_stack_default
    /\ Len(results) = 2
    /\ ExplicitStacked(lines[1]) /\ lines[1].stacked = "False"
    /\ SpaceFollowed(results[1].line) /\ trace[1].branch = "inline"
    /\ ~ExplicitStacked(lines[2]) /\ trace[2].branch = "unsplit"

\* C2: an entry whose text has no second part is emitted with
\* bbox_top = bbox_bottom = the box of the whole string at the cursor,
\* whatever its stacked flag and force_stack_default are.
C2_UnsplitSameBox ==
    \A i \in 1..Len(results) :
        ~SpaceFollowed(results[i].line) =>
            /\ results[i].bbox_top = results[i].bbox_bottom
            /\ results[i].bbox_top = TextBBox(trace[i].at, results[i].line, EndFont(cfg))
            /\ trace[i].drawn = <<Call(trace[i].at, results[i].line)>>

\* a non-empty text without a second part, flagged stacked: true on a sheet
\* that stacks by default, emitted with one box
C2_Witness ==
    /\ cfg.force_stack_default
    /\ Len(results) >= 1
    /\ lines[1].kind = "dict" /\ lines[1].stacked = "True"
    /\ results[1].line = <<"A", "A", " ">>
    /\ results[1].bbox_top = results[1].bbox_bottom
    /\ results[1].bbox_top[3] > results[1].bbox_top[1]

\* C3: a stacked entry at cursor (x, y) draws and measures top at (x, y) and
\* bottom at (x, y + line_height + g_inner), and the next entry is placed at
\* (x, y + 2*line_height + g_inner + s_block).
C3_StackedGeometry ==
    \A i \in 1..Len(results) :
        trace[i].branch = "stacked" =>
            LET at == trace[i].at
                below == <<at[1], at[2] + Size + cfg.end_inner_gap>>
                top == trace[i].drawn[1].text
                bottom == trace[i].drawn[2].text
            IN  /\ top \o <<" ">> \o bottom = results[i].line
                /\ trace[i].drawn = <<Call(at, top), Call(below, bottom)>>
                /\ results[i].bbox_top = TextBBox(at, top, EndFont(cfg))
                /\ results[i].bbox_bottom = TextBBox(below, bottom, EndFont(cfg))
                /\ NextAt(i) = <<at[1], at[2] + 2 * Size + cfg.end_inner_gap + cfg.end_spacing>>

\* the documented scenario: line height 30, inner gap 0, spacing 20, origin
\* (500, 5): top at (500, 5), bottom at (500, 35), next cursor y = 85
C3_Witness ==
    /\ Size = 30 /\ cfg.end_inner_gap = 0 /\ cfg.end_spacing = 20
    /\ Len(results) = 1
    /\ lines[1].kind = "dict" /\ lines[1].stacked = "True"
    /\ trace[1].branch = "stacked"
    /\ trace[1].drawn[1].at = <<500, 5>>
    /\ trace[1].drawn[2].at = <<500, 35>>
    /\ results[1].bbox_bottom[2] = 35
    /\ x = 500 /\ y = 85

\* the inline branch of entry i: its top width and where its bottom went
InlineWidth(i) == Len(trace[i].drawn[1].text) * cfg.adv

\* C4 as stated: the inline gap is round(width(top) * inline_gap_factor) and
\* bottom is drawn at (x + width(top) + gap, y).
C4_RoundedGap ==
    \A i \in 1..Len(results) :
        trace[i].branch = "inline" =>
            LET at == trace[i].at
                w == InlineWidth(i)
            IN  trace[i].drawn[2].at = <<at[1] + w + RoundNearest(w * cfg.inline_gap_factor, 10), at[2]>>

\* C4 amended: the inline gap is int(width(top) * inline_gap_factor), the
\* product truncated toward zero, and bottom is drawn at
\* (x + width(top) + gap, y); the emitted second box runs from the top box's
\* left/top to the bottom box's right/bottom.
C4_TruncatedGap ==
    \A i \in 1..Len(results) :
        trace[i].branch = "inline" =>
            LET at == trace[i].at
                w == InlineWidth(i)
                p == w * cfg.inline_gap_factor
                gap == IF p >= 0 THEN p \div 10 ELSE -((-p) \div 10)
                right == <<at[1] + w + gap, at[2]>>
                bottom == trace[i].drawn[2].text
            IN  /\ trace[i].drawn = <<Call(at, trace[i].drawn[1].text), Call(right, bottom)>>
                /\ results[i].bbox_top = TextBBox(at, trace[i].drawn[1].text, EndFont(cfg))
                /\ results[i].bbox_bottom[3] = TextBBox(right, bottom, EndFont(cfg))[3]
                /\ NextAt(i) = <<at[1], at[2] + Size + cfg.end_spacing>>

\* a top 6 wide with factor 0.3: 1.8 is cut to a gap of 1, bottom at x + 7
C4_Witness ==
    /\ cfg.inline_gap_factor = 3
    /\ Len(results) >= 1
    /\ trace[1].branch = "inline"
    /\ InlineWidth(1) = 6
    /\ trace[1].drawn[2].at = <<cfg.end_x + 7, cfg.end_y>>

\* C5 as stated: the cursor y strictly increases after every entry, for every
\* configured font size, block spacing and inner stack gap.
C5_AlwaysAdvances ==
    \A i \in 1..Len(results) : NextAt(i)[2] > trace[i].at[2]

\* the advance the configuration gives the branch entry i took
ConfiguredAdvance(i) ==
    IF trace[i].branch = "stacked"
    THEN 2 * Size + cfg.end_inner_gap + cfg.end_spacing
    ELSE Size + cfg.end_spacing

\* C5 amended: the cursor y strictly increases after an entry whenever the
\* configured advance of its branch is positive (line_height + s_block > 0
\* for inline and unsplit entries, 2*line_height + g_inner + s_block > 0 for
\* stacked ones, as with every non-negative spacing and gap); x never moves.
C5_AdvancesWhenPositive ==
    \A i \in 1..Len(results) :
        /\ ConfiguredAdvance(i) > 0 => NextAt(i)[2] > trace[i].at[2]
        /\ NextAt(i)[1] = trace[i].at[1]

\* two entries, one of them not stacked, on a sheet with positive advances:
\* the second origin and the final cursor are each strictly lower
C5_Witness ==
    /\ Len(results) = 2
    /\ ConfiguredAdvance(1) > 0 /\ ConfiguredAdvance(2) > 0
    /\ trace[1].branch = "unsplit" /\ trace[2].branch = "stacked"
    /\ trace[2].at[2] > trace[1].at[2]
    /\ y > trace[2].at[2]

Branches == {"stacked", "inline", "unsplit"}

\* C6 as stated: for every input, a structured entry with a missing or
\* non-string value included, the pass never raises, and every entry read so
\* far has exactly one result, in input order, from one of the three branches.
C6_NeverRaises ==
    /\ pc # "raised"
    /\ Len(results) = Len(lines)
    /\ Len(trace) = Len(lines)
    /\ \A i \in 1..Len(results) :
           /\ trace[i].branch \in Branches
           /\ lines[i].kind = "str" => results[i].line = lines[i].value

\* the literal str() of the two malformed entries
Coerced(e) == IF e.num = <<5>> THEN <<"5">> ELSE <<"[", "1", ",", " ", "2", "]">>

\* C7 as stated: a malformed entry (number, list) is always rendered through
\* the unsplit branch with bbox_top = bbox_bottom.
C7_MalformedUnsplit ==
    \A i \in 1..Len(results) :
        lines[i].kind = "other" =>
            /\ trace[i].branch = "unsplit"
            /\ results[i].bbox_top = results[i].bbox_bottom

\* C7 amended: a malformed entry is never rejected; it is coerced with str()
\* and then laid out as a plain string with that text and no stacked field:
\* unsplit (bbox_top = bbox_bottom) when the string form has no space
\* followed by text, otherwise split at its first space and stacked when
\* force_stack_default is set, inline when it is not.
C7_MalformedAsPlainString ==
    \A i \in 1..Len(lines) :
        lines[i].kind = "other" =>
            /\ i <= Len(results)
            /\ results[i].line = Coerced(lines[i])
            /\ ~SpaceFollowed(Coerced(lines[i])) =>
                   (trace[i].branch = "unsplit" /\ results[i].bbox_top = results[i].bbox_bottom)
            /\ SpaceFollowed(Coerced(lines[i])) =>
                   trace[i].branch = (IF cfg.force_stack_default THEN "stacked" ELSE "inline")

\* the list [1, 2], whose string form "[1, 2]" has a space, stacked as
\* "[1," over "2]" on a sheet that stacks by default
C7_Witness ==
    /\ cfg.force_stack_default
    /\ Len(results) >= 1
    /\ lines[1].kind = "other" /\ lines[1].vtype = "list"
    /\ trace[1].branch = "stacked"
    /\ trace[1].drawn[1].text = <<"[", "1", ",">>
    /\ trace[1].drawn[2].text = <<"2", "]">>

\* C8 as stated: with outlines on and no fixed padding, each padding is
\* max(2, round(font_size * 0.1)); with a fixed padding both equal it.
C8_RoundedPadding ==
    (pc = "done" /\ cfg.draw_bboxes) =>
        IF cfg.bbox_padding = << >>
        THEN out.paddings = <<Max(2, RoundNearest(cfg.side_font, 10)),
                              Max(2, RoundNearest(cfg.end_font, 10))>>
        ELSE out.paddings = <<cfg.bbox_padding[1], cfg.bbox_padding[1]>>

Floor10th(n) == IF n \div 10 > 2 THEN n \div 10 ELSE 2

\* C8 amended: with outlines on and no fixed padding, side padding is
\* max(2, int(side_font_size * 0.1)) and end padding is
\* max(2, int(end_font_size * 0.1)), the tenth truncated and not rounded
\* (the default end font size 28 gives 2), each computed from its own font;
\* with a fixed padding both equal it; every side outline is the side box
\* grown by the side padding.
C8_TruncatedPadding ==
    (pc = "done" /\ cfg.draw_bboxes) =>
        /\ IF cfg.bbox_padding = << >>
           THEN out.paddings = <<Floor10th(cfg.side_font), Floor10th(cfg.end_font)>>
           ELSE out.paddings = <<cfg.bbox_padding[1], cfg.bbox_padding[1]>>
        /\ \A i \in 1..Len(side_results) :
               out.rects[i][1] = side_results[i].bbox[1] - out.paddings[1]

\* side font 36 and end font 28 without a fixed padding: paddings 3 and 2
C8_Witness ==
    /\ pc = "done" /\ cfg.draw_bboxes /\ cfg.bbox_padding = << >>
    /\ cfg.side_font = 36 /\ cfg.end_font = 28
    /\ out.paddings = <<3, 2>>

Whitespace == {" ", "\t", "\n"}

\* C9 as stated: (top, bottom) is the text before and after the first
\* whitespace character of any kind.
C9_SplitOnAnyWhitespace ==
    sp.done =>
        IF \E k \in 1..Len(sp.text) : sp.text[k] \in Whitespace
        THEN /\ \A k \in 1..Len(sp.top) : sp.top[k] \notin Whitespace
             /\ Len(sp.top) < Len(sp.text)
             /\ sp.text[Len(sp.top) + 1] \in Whitespace
             /\ sp.bottom = SubSeq(sp.text, Len(sp.top) + 2, Len(sp.text))
        ELSE sp.top = sp.text /\ sp.bottom = << >>

\* C9 amended: (top, bottom) is the text before and after the first space
\* character (U+0020); tabs, newlines and other whitespace do not split.
\* bottom is empty exactly when the text has no space or nothing follows its
\* first space, and has_space = (bottom is non-empty).
C9_SplitOnFirstSpace ==
    sp.done =>
        /\ IF \E k \in 1..Len(sp.text) : sp.text[k] = " "
           THEN /\ \A k \in 1..Len(sp.top) : sp.top[k] # " "
                /\ sp.top \o <<" ">> \o sp.bottom = sp.text
           ELSE sp.top = sp.text /\ sp.bottom = << >>
        /\ sp.has_space <=> (sp.bottom # << >>)
        /\ (sp.bottom = << >>) <=>
              \/ \A k \in 1..Len(sp.text) : sp.text[k] # " "
              \/ \E k \in 1..Len(sp.text) : /\ sp.text[k] = " "
                                            /\ \A j \in 1..(k - 1) : sp.text[j] # " "
                                            /\ k = Len(sp.text)

\* "A" followed by two spaces splits at the first: top "A", bottom " "
C9_Witness ==
    /\ sp.done
    /\ sp.text = <<"A", " ", " ">>
    /\ sp.top = <<"A">> /\ sp.bottom = <<" ">> /\ sp.has_space

\* C10 as stated: bbox_top = bbox_bottom exactly for the unsplit entries, so
\* the exporter's single-box form is written exactly for them.
C10_EqualIffUnsplit ==
    \A i \in 1..Len(results) :
        /\ (results[i].bbox_top = results[i].bbox_bottom) <=> ~SpaceFollowed(results[i].line)
        /\ pc = "done" => ((out.txt[i].form = "bbox") <=> ~SpaceFollowed(results[i].line))

\* the two halves drawn for entry i are the same text
SameHalves(i) == Len(trace[i].drawn) = 2 /\ trace[i].drawn[1].text = trace[i].drawn[2].text

\* C10 amended: bbox_top = bbox_bottom holds for every unsplit entry but not
\* only for them: a split entry whose second box coincides with its first is
\* emitted with equal boxes too.  For a stacked entry with identical halves
\* the boxes differ exactly when line_height + inner_stack_gap is not 0; for
\* an inline entry with identical halves the union box differs from the top
\* box exactly when width(top) + gap is not 0.  The exporter writes the
\* single 'bbox=' form and a single outline exactly for the results whose two
\* boxes are equal.
C10_EqualWhenCoincident ==
    \A i \in 1..Len(results) :
        LET same == results[i].bbox_top = results[i].bbox_bottom
        IN  /\ ~SpaceFollowed(results[i].line) => same
            /\ (trace[i].branch = "stacked" /\ SameHalves(i)) =>
                   (same <=> (Size + cfg.end_inner_gap = 0))
            /\ (trace[i].branch = "inline" /\ SameHalves(i)) =>
                   (same <=> (trace[i].drawn[2].at[1] = trace[i].at[1]))
            /\ pc = "done" =>
                   /\ (out.txt[i].form = "bbox") <=> same
                   /\ Len(out.txt[i].boxes) = (IF same THEN 1 ELSE 2)
                   /\ Len(out.rects) = Len(side_results) + Len(results)
                        + Cardinality({k \in 1..Len(results) :
                                          results[k].bbox_top # results[k].bbox_bottom})

\* "A A" stacked with line height 10 and inner gap -10: both halves land on
\* the same box and the exporter writes it as a single box
C10_Witness ==
    /\ pc = "done"
    /\ Len(results) >= 1
    /\ trace[1].branch = "stacked"
    /\ results[1].line = <<"A", " ", "A">>
    /\ results[1].bbox_top = results[1].bbox_bottom
    /\ out.txt[1].form = "bbox"

====
